---- MODULE Spec2Model ----
(***************************************************************************)
(* pyasana.client: the option merge, the retry loop of Client.request, the  *)
(* query merge of Client.get, Client.get_collection, _PageIterator and the *)
(* item generator, against a server that serves a finite sequence of pages *)
(* and a transport that may raise instead of answering.                    *)
(*                                                                         *)
(* Python dicts are functions from key strings to values; a dict shared by *)
(* two holders is updated in both.  Floats are integers (delays in whole   *)
(* seconds).  The error module is not part of the sources; the status      *)
(* table and the retryable classes follow the error taxonomy of the        *)
(* specification.                                                          *)
(***************************************************************************)
EXTENDS Integers, Sequences, FiniteSets, TLC

VARIABLES
    options,      \* Client.options
    init_options, \* the options Client.__init__ was given
    pages,        \* the collection the server holds, one sequence of items per page
    pep479,       \* interpreter: TRUE when StopIteration raised inside a generator becomes RuntimeError
    pc,           \* "idle": no request in flight; "loop": inside the while loop of Client.request
    req,          \* the request in flight: caller, target, merged options, transport options
    retries,      \* local of Client.request: remaining retries
    retry_delay,  \* local of Client.request: next backoff delay
    seen,         \* responses received by the request in flight (or the last one)
    sleeps,       \* durations passed to time.sleep by the request in flight (or the last one)
    outcome,      \* what the last completed operation gave its caller
    iters,        \* the iterators handed out by get_collection
    sent,         \* every transport call made so far
    calls         \* number of calls made by the application

vars == <<options, init_options, pages, pep479, pc, req, retries, retry_delay, seen, sleeps,
          outcome, iters, sent, calls>>

-----------------------------------------------------------------------------
(* Bounds *)

MaxAttempts == 4
MaxRetries == 2
MaxCalls == 1
MaxPages == 2
MaxSteps == 4

-----------------------------------------------------------------------------
(* Python values *)

\* the bool True held by an integer-valued option (retries=True)
PyTrue == -1
\* float('inf')
Inf == -2

DEFAULT_LIMIT == 100

EmptyDict == <<>>

\* the keys result already has are kept
update_KeepsFirst(result, obj) ==
    [k \in (DOMAIN result) \cup (DOMAIN obj) |->
        IF k \in DOMAIN result THEN result[k] ELSE obj[k]]

\* dict.update: the keys of obj replace those of result
update(result, obj) ==
    [k \in (DOMAIN result) \cup (DOMAIN obj) |->
        IF k \in DOMAIN obj THEN obj[k] ELSE result[k]]

RECURSIVE merge(_)
merge(objects) ==
    IF Len(objects) = 0 THEN EmptyDict
    ELSE update(merge(SubSeq(objects, 1, Len(objects) - 1)), objects[Len(objects)])

\* dict.pop(key, None)
pop(d, key) == [k \in (DOMAIN d) \ {key} |-> d[k]]

DEFAULTS ==
    [base_url |-> "https://app.asana.com/api/1.0",
     limit |-> DEFAULT_LIMIT,
     poll_interval |-> 5,
     retries |-> 5,
     retry_delay |-> 1,
     retry_backoff |-> 2,
     full_payload |-> FALSE,
     iterator_type |-> "pages"]

\* Client.__init__
ClientInit(opts) == merge(<<DEFAULTS, opts>>)

merge_options(self_options, objects) == merge(<<self_options>> \o objects)

select_options(self_options, opts, keys) ==
    LET o == merge_options(self_options, <<opts>>)
    IN  [k \in keys \cap (DOMAIN o) |-> o[k]]

parse_query_options(self_options, opts) ==
    select_options(self_options, opts, {"limit", "offset", "sync"})

\* ','.join(list) for the lists of field names the model uses
RECURSIVE join(_)
join(list) ==
    IF Len(list) = 0 THEN ""
    ELSE IF Len(list) = 1 THEN list[1]
    ELSE list[1] \o "," \o join(Tail(list))

\* isinstance(value, (list, tuple)): fields and expand hold lists, pretty a bool
ListKeys == {"fields", "expand"}

parse_api_options(self_options, opts, query_string) ==
    LET api_options == select_options(self_options, opts, {"pretty", "fields", "expand"})
        src(q) == CHOOSE k \in DOMAIN api_options : "opt_" \o k = q
    IN  IF query_string
        THEN [q \in {"opt_" \o k : k \in DOMAIN api_options} |->
                IF src(q) \in ListKeys THEN join(api_options[src(q)])
                ELSE api_options[src(q)]]
        ELSE api_options

\* the query parameters that can hold a bool; in a query the Python bools True
\* and False are the strings "True" and "False"
BoolKeys == {"sync", "opt_pretty"}

\* isinstance(params[key], bool)
isbool(key, value) == key \in BoolKeys /\ value \in {"True", "False"}

\* json.dumps of a bool
dumps(b) == IF b = "True" THEN "true" ELSE "false"

\* for key in params: if isinstance(params[key], bool): params[key] = json.dumps(params[key])
serialized(params) ==
    [key \in DOMAIN params |->
        IF isbool(key, params[key]) THEN dumps(params[key]) ELSE params[key]]

parse_request_options(self_options, opts) ==
    LET request_options == select_options(self_options, opts, {"headers", "params", "data"})
    IN  IF "params" \in DOMAIN request_options
        THEN update(request_options, [params |-> serialized(request_options["params"])])
        ELSE request_options

\* the merge is shallow: a dict that holds the params dict of a request sees the
\* values the request serialized in place
aliased(d) ==
    IF "params" \in DOMAIN d THEN [d EXCEPT !["params"] = serialized(@)] ELSE d

\* a dict of options after a request: when the call gives no params, the params
\* dict of the request is the one self.options holds
stored_after_request(stored, kwargs) ==
    IF "params" \in DOMAIN kwargs THEN stored ELSE aliased(stored)

\* the caller's literal query first: the options replace its keys
get_query_OptionsLast(self_options, query, opts) ==
    LET api_options == parse_api_options(self_options, opts, TRUE)
        query_options == parse_query_options(self_options, opts)
    IN  merge(<<query, query_options, api_options>>)

\* Client.get: the query sent, the caller's literal query last
get_query(self_options, query, opts) ==
    LET api_options == parse_api_options(self_options, opts, TRUE)
        query_options == parse_query_options(self_options, opts)
    IN  merge(<<query_options, api_options, query>>)

-----------------------------------------------------------------------------
(* Error classes, from the status table of the error taxonomy *)

STATUS_MAP == {400, 401, 403, 404, 409, 412, 429, 500, 502, 503, 504}

RetryableAsanaError(s) == s \in {429, 500, 502, 503, 504}

RateLimitEnforcedError(s) == s = 429

\* 2xx
Successful(s) == s >= 200 /\ s < 300

-----------------------------------------------------------------------------
(* The server *)

ServerStatuses == {200, 404, 418, 429, 500}

RetryAfters == {7, 30}

OrigPath == "/tasks"

\* the path of the cursor that leads to page k
CursorPath(k) == "/tasks?offset=" \o ToString(k)

PageOf(path) ==
    IF path = OrigPath THEN 1
    ELSE CHOOSE k \in 1..Len(pages) : CursorPath(k) = path

Cursor(k) == [tag |-> "cursor", path |-> CursorPath(k)]
Missing == [tag |-> "missing", path |-> ""]
Null == [tag |-> "null", path |-> ""]

\* the response body: the page the path names and the cursor to the next one;
\* after the last page next_page is left out or null
ServerEnvelope(path, absent) ==
    LET k == PageOf(path)
    IN  [data |-> pages[k],
         next_page |-> IF k < Len(pages) THEN Cursor(k + 1) ELSE absent]

-----------------------------------------------------------------------------
(* Client.request *)

\* options['retries'] == True, as Python compares: True == 1
EqTrue(v) == v = PyTrue \/ v = 1

\* True taken as the number 1, without the conversion to an infinite counter
InitRetries_NoSentinel(o) == IF o["retries"] = PyTrue THEN 1 ELSE o["retries"]

InitRetries(o) == IF EqTrue(o["retries"]) THEN Inf ELSE o["retries"]

\* retries > 0
RetriesLeft(r) == r = Inf \/ r > 0

\* retries -= 1
Decrement(r) == IF r = Inf THEN Inf ELSE r - 1

\* response.status_code in STATUS_MAP
IsError(s) == s \in STATUS_MAP

\* except error.AsanaError
Caught_AnyAsanaError(s) == s \in STATUS_MAP

\* except error.RetryableAsanaError
Caught(s) == RetryableAsanaError(s)

\* except Exception
CaughtTransport_AnyException == TRUE

\* except error.RetryableAsanaError, for an exception the transport itself raised
CaughtTransport == FALSE

Response(s, ra) == [status |-> s, retry_after |-> ra]

\* time.sleep(retry_delay) for every retryable error
SleepFor_AlwaysBackoff(r, delay) == delay

\* the argument of time.sleep
SleepFor(r, delay) ==
    IF RateLimitEnforcedError(r.status) THEN r.retry_after ELSE delay

\* retry_delay + retry_backoff
NextDelay_Additive(r, delay, backoff) ==
    IF RateLimitEnforcedError(r.status) THEN delay ELSE delay + backoff

\* retry_delay after the sleep
NextDelay(r, delay, backoff) ==
    IF RateLimitEnforcedError(r.status) THEN delay ELSE delay * backoff

\* the value returned for a non-error response
Returned(o, env) ==
    IF o["full_payload"]
    THEN [full |-> TRUE, data |-> env.data, next_page |-> env.next_page]
    ELSE [full |-> FALSE, data |-> env.data, next_page |-> Missing]

NoOutcome == [kind |-> "none", status |-> 0, data |-> <<>>, next_page |-> Missing]

Outcome(kind, status, data, next_page) ==
    [kind |-> kind, status |-> status, data |-> data, next_page |-> next_page]

Raise(kind, status) == Outcome(kind, status, <<>>, Missing)

NoReq == [caller |-> 0, method |-> "", path |-> "", url |-> "", query |-> EmptyDict,
          kwargs |-> EmptyDict, options |-> EmptyDict, request_options |-> EmptyDict]

\* the head of Client.request, up to the while loop; query is the literal query
\* of the Client.get that made the request
StartRequest(caller, method, path, query, kwargs) ==
    LET o == merge_options(options, <<kwargs>>)
    IN  /\ req' = [caller |-> caller,
                   method |-> method,
                   path |-> path,
                   url |-> o["base_url"] \o path,
                   query |-> query,
                   kwargs |-> aliased(kwargs),
                   options |-> aliased(o),
                   request_options |-> parse_request_options(options, o)]
        /\ retries' = InitRetries(o)
        /\ retry_delay' = o["retry_delay"]
        /\ seen' = <<>>
        /\ sleeps' = <<>>
        /\ pc' = "loop"

\* request('get', path, params=query, **options) takes no second params among
\* the keyword arguments: the call is a TypeError
GetAccepts(opts) == "params" \notin DOMAIN opts

\* Client.get: request('get', path, params=query, **options)
StartGet(caller, path, query, opts) ==
    StartRequest(caller, "get", path, query,
                 update(opts, [params |-> get_query(options, query, opts)]))

\* the transport call of one loop iteration
CanCall == pc = "loop" /\ Len(seen) < MaxAttempts

Call ==
    [caller |-> req.caller, method |-> req.method, path |-> req.path, url |-> req.url,
     query |-> req.query,
     params |-> IF "params" \in DOMAIN req.request_options
                THEN req.request_options["params"] ELSE EmptyDict]

-----------------------------------------------------------------------------
(* _PageIterator and the item generator *)

FalseVal == [tag |-> "False", path |-> ""]
NoneVal == [tag |-> "None", path |-> ""]

\* the handles the application can hold
Iters == {1, 2}

NoIter ==
    [made |-> FALSE, kind |-> "pages", path |-> "", query |-> EmptyDict,
     options |-> EmptyDict, next_page |-> FalseVal, buf |-> <<>>, gen |-> "new",
     outPages |-> <<>>, yielded |-> <<>>, stops |-> 0, steps |-> 0, erred |-> FALSE]

\* self.options = options: full_payload is left as the caller has it
PageIteratorInit_KeepsPayload(kind, path, query, opts) ==
    [NoIter EXCEPT !.made = TRUE, !.kind = kind, !.path = path, !.query = query,
                   !.options = opts,
                   !.next_page = FalseVal]

\* _PageIterator.__init__
PageIteratorInit(kind, path, query, opts) ==
    [NoIter EXCEPT !.made = TRUE, !.kind = kind, !.path = path, !.query = query,
                   !.options = merge(<<opts, [full_payload |-> TRUE]>>),
                   !.next_page = FalseVal]

\* result.get('next_page', False)
EnvGet_DefaultFalse(result) ==
    IF result.next_page.tag = "missing" THEN FalseVal
    ELSE IF result.next_page.tag = "null" THEN NoneVal
    ELSE result.next_page

\* result.get('next_page', None): a missing key and a JSON null both give None
EnvGet(result) ==
    IF result.next_page.tag \in {"missing", "null"} THEN NoneVal ELSE result.next_page

\* the options a step calls Client.get with: offset is popped once a cursor is followed
StepOptions(it) ==
    IF it.next_page = FalseVal THEN it.options ELSE pop(it.options, "offset")

\* every step asks for self.path
StepTarget_AlwaysOriginal(it) == [path |-> it.path, query |-> it.query]

\* the path and query a step calls Client.get with
StepTarget(it) ==
    IF it.next_page = FalseVal
    THEN [path |-> it.path, query |-> it.query]
    ELSE [path |-> it.next_page.path, query |-> EmptyDict]

\* the rest of the page is lost after the first item
TakeItem_DropRest(page) == [item |-> Head(page), rest |-> <<>>]

\* for item in page: yield item
TakeItem(page) == [item |-> Head(page), rest |-> Tail(page)]

\* the cursor is given up before Client.get is called
Fetch_ClearsCursor(i, it) ==
    /\ iters' = [iters EXCEPT ![i] = [it EXCEPT !.options = StepOptions(it),
                                                 !.next_page = NoneVal]]
    /\ StartGet(i, StepTarget(it).path, StepTarget(it).query, StepOptions(it))
    /\ outcome' = NoOutcome

\* a step of _PageIterator that calls Client.get
Fetch(i, it) ==
    IF GetAccepts(StepOptions(it))
    THEN /\ iters' = [iters EXCEPT ![i] = [it EXCEPT !.options = StepOptions(it)]]
         /\ StartGet(i, StepTarget(it).path, StepTarget(it).query, StepOptions(it))
         /\ outcome' = NoOutcome
    ELSE /\ iters' = [iters EXCEPT ![i] =
                        [it EXCEPT !.options = StepOptions(it),
                                   !.erred = TRUE,
                                   !.gen = IF it.kind = "items" THEN "done" ELSE @]]
         /\ outcome' = Raise("TypeError", 0)
         /\ pc' = "idle"
         /\ UNCHANGED <<req, retries, retry_delay, seen, sleeps>>

\* the generator yields the next item of the current page
Yield(i, it, page) ==
    /\ iters' = [iters EXCEPT ![i] = [it EXCEPT !.buf = TakeItem(page).rest,
                                                  !.yielded = Append(@, TakeItem(page).item)]]
    /\ outcome' = Outcome("item", 0, <<TakeItem(page).item>>, Missing)

\* the page loop of the generator is over: raise StopIteration inside the generator
GenEnd(i, it) ==
    /\ iters' = [iters EXCEPT ![i] = [it EXCEPT !.gen = "done",
                                                 !.stops = IF pep479 THEN @ ELSE @ + 1]]
    /\ outcome' = IF pep479 THEN Raise("RuntimeError", 0) ELSE Raise("stop", 0)

\* the request returned result to its caller
Deliver(result, r) ==
    LET i == req.caller
        it == iters[i]
        it1 == [it EXCEPT !.next_page = EnvGet(result)]
        done == /\ pc' = "idle"
                /\ seen' = Append(seen, r)
                /\ UNCHANGED <<req, retries, retry_delay, sleeps>>
    IN  IF req.caller = 0
        THEN /\ outcome' = Outcome(IF result.full THEN "envelope" ELSE "data",
                                   r.status, result.data, result.next_page)
             /\ done
             /\ UNCHANGED iters
        ELSE IF ~result.full
        THEN \* result is the bare data: result.get fails
             /\ outcome' = Raise("AttributeError", 0)
             /\ iters' = [iters EXCEPT ![i] =
                            [it EXCEPT !.gen = IF it.kind = "items" THEN "done" ELSE @]]
             /\ done
        ELSE IF it.kind = "pages"
        THEN /\ iters' = [iters EXCEPT ![i] =
                            [it1 EXCEPT !.outPages = Append(@, result.data)]]
             /\ outcome' = Outcome("page", 0, result.data, Missing)
             /\ done
        ELSE IF result.data # <<>>
        THEN Yield(i, it1, result.data) /\ done
        ELSE IF it1.next_page = NoneVal
        THEN GenEnd(i, it1) /\ done
        ELSE Fetch(i, it1)

\* an exception leaves Client.request and the step that made the request
Propagate(raised, responses) ==
    LET i == req.caller
    IN  /\ outcome' = raised
        /\ pc' = "idle"
        /\ seen' = responses
        /\ iters' = IF i = 0 THEN iters
                    ELSE [iters EXCEPT ![i] =
                            [iters[i] EXCEPT !.erred = TRUE,
                                             !.gen = IF iters[i].kind = "items"
                                                     THEN "done" ELSE @]]
        /\ UNCHANGED <<req, retries, retry_delay, sleeps>>

\* the request raised the error of response r to its caller
Fail(r) == Propagate(Raise("raise", r.status), Append(seen, r))

-----------------------------------------------------------------------------
(* One iteration of the while loop of Client.request *)

AttemptReturn ==
    \E s \in ServerStatuses, absent \in {Missing, Null} :
        /\ CanCall
        /\ ~IsError(s)
        /\ sent' = Append(sent, Call)
        /\ Deliver(Returned(req.options, ServerEnvelope(req.path, absent)), Response(s, 0))
        /\ UNCHANGED <<options, init_options, pages, pep479, calls>>

AttemptRaise ==
    \E s \in ServerStatuses :
        /\ CanCall
        /\ IsError(s)
        /\ ~Caught(s)
        /\ sent' = Append(sent, Call)
        /\ Fail(Response(s, 0))
        /\ UNCHANGED <<options, init_options, pages, pep479, calls>>

AttemptRetry ==
    \E s \in ServerStatuses, ra \in RetryAfters :
        LET r == Response(s, IF RateLimitEnforcedError(s) THEN ra ELSE 0)
        IN  /\ CanCall
            /\ IsError(s)
            /\ Caught(s)
            /\ RetriesLeft(retries)
            /\ sent' = Append(sent, Call)
            /\ seen' = Append(seen, r)
            /\ retries' = Decrement(retries)
            /\ sleeps' = Append(sleeps, SleepFor(r, retry_delay))
            /\ retry_delay' = NextDelay(r, retry_delay, req.options["retry_backoff"])
            /\ iters' = IF req.caller = 0 THEN iters
                        ELSE [iters EXCEPT ![req.caller].erred = TRUE]
            /\ UNCHANGED <<options, init_options, pages, pep479, pc, req, outcome, calls>>

AttemptExhausted ==
    \E s \in ServerStatuses, ra \in RetryAfters :
        /\ CanCall
        /\ IsError(s)
        /\ Caught(s)
        /\ ~RetriesLeft(retries)
        /\ sent' = Append(sent, Call)
        /\ Fail(Response(s, IF RateLimitEnforcedError(s) THEN ra ELSE 0))
        /\ UNCHANGED <<options, init_options, pages, pep479, calls>>

\* the transport call raises: no response
AttemptTransportError ==
    /\ CanCall
    /\ sent' = Append(sent, Call)
    /\ IF CaughtTransport /\ RetriesLeft(retries)
       THEN /\ retries' = Decrement(retries)
            /\ sleeps' = Append(sleeps, retry_delay)
            /\ retry_delay' = retry_delay * req.options["retry_backoff"]
            /\ iters' = IF req.caller = 0 THEN iters
                        ELSE [iters EXCEPT ![req.caller].erred = TRUE]
            /\ UNCHANGED <<pc, req, seen, outcome>>
       ELSE Propagate(Raise("TransportError", 0), seen)
    /\ UNCHANGED <<options, init_options, pages, pep479, calls>>

-----------------------------------------------------------------------------
(* Calls made by the application *)

CallOptions == {EmptyDict, [retries |-> 1], [full_payload |-> TRUE]}

Queries == {EmptyDict, [limit |-> 10]}

\* client.get(path, query, **opts)
Get(query, opts) ==
    /\ pc = "idle"
    /\ calls < MaxCalls
    /\ calls' = calls + 1
    /\ StartGet(0, OrigPath, query, opts)
    /\ outcome' = NoOutcome
    /\ UNCHANGED <<options, init_options, pages, pep479, iters, sent>>

CallGet == \E query \in Queries, opts \in CallOptions : Get(query, opts)

\* per-call options and literal queries whose keys overlap those of the client's
\* options and of the defaults
TierOptions ==
    {EmptyDict,
     [limit |-> 5, fields |-> <<"notes">>],
     [offset |-> "X", sync |-> "True", headers |-> [b |-> "2"]],
     [full_payload |-> TRUE, pretty |-> "True"]}

TierQueries ==
    {EmptyDict, [limit |-> 10], [offset |-> "Q"], [opt_fields |-> "gid", sync |-> "True"]}

CallGetTiers == \E query \in TierQueries, opts \in TierOptions : Get(query, opts)

DirectOptions == {EmptyDict, [headers |-> [b |-> "2"]], [params |-> [sync |-> "False"]]}

\* client.request(method, path, **opts), as Client.delete makes it
CallRequest ==
    \E method \in {"delete", "post"}, opts \in DirectOptions :
        /\ pc = "idle"
        /\ calls < MaxCalls
        /\ calls' = calls + 1
        /\ StartRequest(0, method, OrigPath, EmptyDict, opts)
        /\ options' = stored_after_request(options, opts)
        /\ init_options' = stored_after_request(init_options, opts)
        /\ outcome' = NoOutcome
        /\ UNCHANGED <<pages, pep479, iters, sent>>

CollectionOptions ==
    {EmptyDict, [offset |-> "X"], [full_payload |-> FALSE], [iterator_type |-> "items"],
     [iterator_type |-> "none"], [iterator_type |-> "rows"]}

\* the iterator asks for its first page when it is made
GetCollection_Eager(i, query, opts) ==
    LET o == merge_options(options, <<opts>>)
        it == PageIteratorInit(o["iterator_type"], OrigPath, query, o)
    IN  /\ pc = "idle"
        /\ ~iters[i].made
        /\ o["iterator_type"] \in {"pages", "items"}
        /\ iters' = [iters EXCEPT ![i] = it]
        /\ StartGet(i, OrigPath, query, it.options)
        /\ outcome' = NoOutcome
        /\ UNCHANGED <<options, init_options, pages, pep479, sent, calls>>

\* client.get_collection(path, query, **opts) handing out an iterator
GetCollection(i, query, opts) ==
    LET o == merge_options(options, <<opts>>)
    IN  /\ pc = "idle"
        /\ ~iters[i].made
        /\ o["iterator_type"] \in {"pages", "items"}
        /\ iters' = [iters EXCEPT ![i] =
                        PageIteratorInit(o["iterator_type"], OrigPath, query, o)]
        /\ outcome' = Raise("iterator", 0)
        /\ UNCHANGED <<options, init_options, pages, pep479, pc, req, retries,
                       retry_delay, seen, sleeps, sent, calls>>

GetCollectionIterator(i) ==
    \E query \in Queries, opts \in CollectionOptions : GetCollection(i, query, opts)

PairOptions == {EmptyDict, [offset |-> "X"]}

\* get_collection for one of two page iterators of the same client
GetCollectionPair(i) ==
    \E opts \in PairOptions : GetCollection(i, EmptyDict, opts)

\* client.get_collection with iterator_type None: a plain get
GetCollectionGet(i) ==
    \E query \in Queries, opts \in CollectionOptions :
        LET o == merge_options(options, <<opts>>)
        IN  /\ pc = "idle"
            /\ ~iters[i].made
            /\ o["iterator_type"] = "none"
            /\ iters' = [iters EXCEPT ![i] = [NoIter EXCEPT !.made = TRUE, !.kind = "none"]]
            /\ IF GetAccepts(o)
               THEN /\ StartGet(0, OrigPath, query, o)
                    /\ outcome' = NoOutcome
               ELSE /\ outcome' = Raise("TypeError", 0)
                    /\ UNCHANGED <<pc, req, retries, retry_delay, seen, sleeps>>
            /\ UNCHANGED <<options, init_options, pages, pep479, sent, calls>>

\* client.get_collection with any other iterator_type: the raise statement
\* names Error, which the module does not define
GetCollectionUnknown(i) ==
    \E opts \in CollectionOptions :
        LET o == merge_options(options, <<opts>>)
        IN  /\ pc = "idle"
            /\ ~iters[i].made
            /\ o["iterator_type"] \notin {"pages", "items", "none"}
            /\ iters' = [iters EXCEPT ![i] = [NoIter EXCEPT !.made = TRUE, !.kind = "none"]]
            /\ outcome' = Raise("NameError", 0)
            /\ UNCHANGED <<options, init_options, pages, pep479, pc, req, retries,
                           retry_delay, seen, sleeps, sent, calls>>

CanStep(i) == pc = "idle" /\ iters[i].made /\ iters[i].steps < MaxSteps

Stepped(it) == [it EXCEPT !.steps = @ + 1]

\* _PageIterator.__next__ with next_page None
PageStop(i) ==
    /\ CanStep(i)
    /\ iters[i].kind = "pages"
    /\ iters[i].next_page = NoneVal
    /\ iters' = [iters EXCEPT ![i] = [Stepped(@) EXCEPT !.stops = @ + 1]]
    /\ outcome' = Raise("stop", 0)
    /\ UNCHANGED <<options, init_options, pages, pep479, pc, req, retries, retry_delay,
                   seen, sleeps, sent, calls>>

\* _PageIterator.__next__ with next_page False or a cursor
PageFetch(i) ==
    /\ CanStep(i)
    /\ iters[i].kind = "pages"
    /\ iters[i].next_page # NoneVal
    /\ Fetch(i, Stepped(iters[i]))
    /\ UNCHANGED <<options, init_options, pages, pep479, sent, calls>>

\* next() on the item generator
ItemNext(i) ==
    LET it == Stepped(iters[i])
        idle == UNCHANGED <<pc, req, retries, retry_delay, seen, sleeps>>
    IN  /\ CanStep(i)
        /\ iters[i].kind = "items"
        /\ IF it.gen = "done"
           THEN /\ iters' = [iters EXCEPT ![i] = [it EXCEPT !.stops = @ + 1]]
                /\ outcome' = Raise("stop", 0)
                /\ idle
           ELSE IF it.buf # <<>>
           THEN Yield(i, it, it.buf) /\ idle
           ELSE IF it.next_page = NoneVal
           THEN GenEnd(i, it) /\ idle
           ELSE Fetch(i, it)
        /\ UNCHANGED <<options, init_options, pages, pep479, sent, calls>>

-----------------------------------------------------------------------------
(* Specifications *)

RetryChoices == (0..MaxRetries) \cup {PyTrue}

RetryConfigs ==
    {[retries |-> n, retry_delay |-> d, retry_backoff |-> b] :
        n \in RetryChoices, d \in {1, 2}, b \in {2, 3}}

InitCommon ==
    /\ pc = "idle"
    /\ req = NoReq
    /\ retries = 0
    /\ retry_delay = 0
    /\ seen = <<>>
    /\ sleeps = <<>>
    /\ outcome = NoOutcome
    /\ iters = [i \in Iters |-> NoIter]
    /\ sent = <<>>
    /\ calls = 0

\* direct requests under every retry configuration
InitRequest ==
    /\ init_options \in RetryConfigs
    /\ options = ClientInit(init_options)
    /\ pages = <<<<"t1">>>>
    /\ pep479 = TRUE
    /\ InitCommon

NextRequest ==
    \/ CallGet
    \/ AttemptReturn
    \/ AttemptRaise
    \/ AttemptRetry
    \/ AttemptExhausted
    \/ AttemptTransportError

SpecRequest == InitRequest /\ [][NextRequest]_vars

\* client options whose keys overlap the defaults, the per-call options and the
\* literal queries
OptionTiers ==
    {[retries |-> 0],
     [retries |-> 0, offset |-> "C", headers |-> [a |-> "1"]],
     [retries |-> 0, limit |-> 50, fields |-> <<"gid", "name">>, sync |-> "False"],
     [retries |-> 0, params |-> [sync |-> "True"]]}

\* one call under every combination of the option tiers; with retries 0 the
\* retry branch of the loop is never taken
InitOptions ==
    /\ init_options \in OptionTiers
    /\ options = ClientInit(init_options)
    /\ pages = <<<<"t1">>>>
    /\ pep479 = TRUE
    /\ InitCommon

NextOptions ==
    \/ CallGetTiers
    \/ CallRequest
    \/ AttemptReturn
    \/ AttemptRaise
    \/ AttemptExhausted
    \/ AttemptTransportError

SpecOptions == InitOptions /\ [][NextOptions]_vars

PageChoices == {<<>>, <<"t1", "t2">>, <<"t3">>}

RECURSIVE SeqsUpTo(_, _)
SeqsUpTo(S, n) ==
    IF n = 0 THEN {<<>>}
    ELSE SeqsUpTo(S, n - 1) \cup
         {Append(q, x) : q \in {q \in SeqsUpTo(S, n - 1) : Len(q) = n - 1}, x \in S}

PageSeqs == {q \in SeqsUpTo(PageChoices, MaxPages) : Len(q) >= 1}

\* no retries: every request of a step is a single transport call
PageConfigs ==
    {[retries |-> 0], [retries |-> 0, offset |-> "C"], [retries |-> 0, full_payload |-> TRUE]}

\* one get_collection call under every served page sequence; with retries 0 the retry
\* branch of the loop is never taken
InitPages ==
    /\ init_options \in PageConfigs
    /\ options = ClientInit(init_options)
    /\ pages \in PageSeqs
    /\ pep479 \in BOOLEAN
    /\ InitCommon

NextPages ==
    \/ GetCollectionIterator(1)
    \/ GetCollectionGet(1)
    \/ GetCollectionUnknown(1)
    \/ PageStop(1)
    \/ PageFetch(1)
    \/ ItemNext(1)
    \/ AttemptReturn
    \/ AttemptRaise
    \/ AttemptExhausted
    \/ AttemptTransportError

SpecPages == InitPages /\ [][NextPages]_vars

PairConfigs ==
    {[retries |-> 0], [retries |-> 0, offset |-> "C"],
     [retries |-> 0, params |-> [sync |-> "True"]]}

\* two page iterators of one client over the two-page collection, their steps
\* interleaved with each other and with a direct request; every response is a
\* page
InitPair ==
    /\ init_options \in PairConfigs
    /\ options = ClientInit(init_options)
    /\ pages = <<<<"t1", "t2">>, <<"t3">>>>
    /\ pep479 = TRUE
    /\ InitCommon

NextPair ==
    \/ GetCollectionPair(1)
    \/ GetCollectionPair(2)
    \/ PageStop(1)
    \/ PageStop(2)
    \/ PageFetch(1)
    \/ PageFetch(2)
    \/ CallRequest
    \/ AttemptReturn

SpecPair == InitPair /\ [][NextPair]_vars

-----------------------------------------------------------------------------
(* Properties *)

RECURSIVE Pow(_, _)
Pow(b, e) == IF e = 0 THEN 1 ELSE b * Pow(b, e - 1)

IsPrefix(a, b) == Len(a) <= Len(b) /\ a = SubSeq(b, 1, Len(a))

RECURSIVE Flatten(_)
Flatten(ps) == IF Len(ps) = 0 THEN <<>> ELSE Head(ps) \o Flatten(Tail(ps))

Started == req # NoReq

Last(q) == q[Len(q)]

\* the first k responses of the request are retryable errors other than the rate limit
NoRateLimit(k) ==
    \A j \in 1..k : ~RateLimitEnforcedError(seen[j].status)

AllRetryable ==
    \A k \in 1..Len(seen) : RetryableAsanaError(seen[k].status)

\* C1: with retries = n, a non-negative integer, and a server that answers every
\* attempt with a retryable error, the request makes at most n + 1 transport
\* calls and has made exactly n + 1 when the failure propagates.
C1_RetryBudgetExhaustion ==
    (Started /\ req.options["retries"] >= 0 /\ AllRetryable) =>
        /\ Len(seen) <= req.options["retries"] + 1
        /\ (outcome.kind = "raise" => Len(seen) = req.options["retries"] + 1)

\* C2: as long as no rate-limit error occurred in the request, the k-th sleep
\* lasts retry_delay * retry_backoff^(k-1): the first sleep is retry_delay and
\* no sleep is capped.
C2_BackoffSequence ==
    Started =>
        \A k \in 1..Len(sleeps) :
            NoRateLimit(k) =>
                sleeps[k] = req.options["retry_delay"] * Pow(req.options["retry_backoff"], k - 1)

C2_Witness ==
    /\ Started
    /\ req.options["retry_delay"] = 1
    /\ req.options["retry_backoff"] = 2
    /\ NoRateLimit(Len(seen))
    /\ sleeps = <<1, 2, 4>>

\* C3: when an attempt gets the rate-limit error with retry_after = r and a
\* retry is still allowed, the request sleeps exactly r before the next
\* attempt, whatever the backoff delay has become.
C3_RateLimitOverridesBackoff ==
    [][(/\ pc = "loop"
        /\ Len(seen') = Len(seen) + 1
        /\ RateLimitEnforcedError(Last(seen').status)
        /\ (retries = Inf \/ retries > 0))
       => /\ sleeps' = Append(sleeps, Last(seen').retry_after)
          /\ pc' = "loop"]_vars

C3_Witness ==
    /\ Len(sleeps) = 3
    /\ ~RateLimitEnforcedError(seen[1].status)
    /\ ~RateLimitEnforcedError(seen[2].status)
    /\ RateLimitEnforcedError(seen[3].status)
    /\ seen[3].retry_after = 30
    /\ sleeps[3] = 30
    /\ retry_delay # 30

\* C4: with retries=True no retryable failure propagates: every retryable error
\* of the request was followed by a sleep, and a failure that propagates is a
\* non-retryable one.
C4_UnboundedRetries ==
    (Started /\ req.options["retries"] = PyTrue) =>
        /\ \A k \in 1..Len(seen) : RetryableAsanaError(seen[k].status) => k <= Len(sleeps)
        /\ (outcome.kind = "raise" => ~RetryableAsanaError(outcome.status))

C4_Witness ==
    /\ Started
    /\ req.options["retries"] = PyTrue
    /\ Len(sleeps) >= 3
    /\ AllRetryable

\* C5: a response classified as a non-retryable error is the last response of
\* its request: the failure propagates with that status, nothing was slept
\* after it and no further transport call follows, whatever retries remain.
C5_NonRetryablePropagates ==
    \A k \in 1..Len(seen) :
        (seen[k].status \in STATUS_MAP /\ ~RetryableAsanaError(seen[k].status)) =>
            /\ k = Len(seen)
            /\ pc = "idle"
            /\ outcome = Raise("raise", seen[k].status)
            /\ Len(sleeps) = k - 1

C5_Witness ==
    /\ Len(seen) = 3
    /\ seen[3].status = 404
    /\ outcome = Raise("raise", 404)
    /\ (retries = Inf \/ retries > 0)

\* C6: a response whose status is neither in the status table nor successful
\* makes the request propagate a failure.
C6_UnmappedStatusFails ==
    \A k \in 1..Len(seen) :
        (seen[k].status \notin STATUS_MAP /\ ~Successful(seen[k].status)) =>
            /\ k = Len(seen)
            /\ pc = "idle"
            /\ outcome.kind = "raise"

\* C7: a page iterator that has received the last page holds next_page None,
\* and from then on every step signals end-of-sequence, sends nothing and
\* leaves next_page None.
C7_TerminationIdempotent ==
    /\ [](\A i \in Iters :
            (iters[i].kind = "pages" /\ pc = "idle" /\ ~iters[i].erred
                /\ Len(iters[i].outPages) = Len(pages))
            => iters[i].next_page = NoneVal)
    /\ [][\A i \in Iters :
            (iters[i].made /\ iters[i].kind = "pages" /\ iters[i].next_page = NoneVal) =>
                /\ iters'[i].next_page = NoneVal
                /\ sent' = sent
                /\ pc' = "idle"
                /\ (iters'[i].steps # iters[i].steps => outcome' = Raise("stop", 0))]_vars

C7_Witness ==
    /\ iters[1].kind = "pages"
    /\ iters[1].outPages = pages
    /\ iters[1].next_page = NoneVal
    /\ iters[1].stops >= 2

\* C8: a request that follows a cursor targets the cursor's path and has no
\* offset among its query parameters, wherever an offset option was set.
C8_NoOffsetWithCursor ==
    \A k \in 1..Len(sent) :
        (sent[k].caller # 0 /\ sent[k].path # OrigPath) =>
            /\ sent[k].path \in {CursorPath(j) : j \in 2..Len(pages)}
            /\ "offset" \notin DOMAIN sent[k].params

\* C9: the items yielded by the item generator are a prefix of the
\* concatenation of the pages in page order, and all of it once the generator
\* has ended without a failed request.
C9_ItemOrder ==
    \A i \in Iters :
        (iters[i].made /\ iters[i].kind = "items") =>
            /\ IsPrefix(iters[i].yielded, Flatten(pages))
            /\ ((iters[i].gen = "done" /\ ~iters[i].erred) =>
                    iters[i].yielded = Flatten(pages))

C9_Witness ==
    /\ pages = <<<<"t1", "t2">>, <<"t3">>>>
    /\ iters[1].kind = "items"
    /\ iters[1].gen = "done"
    /\ iters[1].yielded = <<"t1", "t2", "t3">>

TwoPages == <<<<"t1", "t2">>, <<"t3">>>>

Requests(i) == SelectSeq(sent, LAMBDA c : c.caller = i)

\* C10: against the two-page server, with no error response, a page iterator
\* yields [t1,t2], then [t3], then end-of-sequence, and sends two requests: the
\* first to the original path with the caller's query, the second to the
\* cursor's path.
C10_EndToEnd ==
    \A i \in Iters :
        (pages = TwoPages /\ iters[i].made /\ iters[i].kind = "pages" /\ ~iters[i].erred) =>
            LET it == iters[i]
                mine == Requests(i)
            IN  /\ IsPrefix(it.outPages, TwoPages)
                /\ Len(mine) <= 2
                /\ Len(mine) >= 1 =>
                    /\ mine[1].path = OrigPath
                    /\ mine[1].url = options["base_url"] \o OrigPath
                    /\ mine[1].query = it.query
                    /\ \A key \in DOMAIN it.query : mine[1].params[key] = it.query[key]
                /\ Len(mine) = 2 =>
                    /\ mine[2].path = CursorPath(2)
                    /\ mine[2].url = options["base_url"] \o CursorPath(2)
                    /\ mine[2].query = EmptyDict
                /\ (pc = "idle" => Len(mine) = Len(it.outPages))
                /\ (it.stops > 0 => it.outPages = TwoPages /\ Len(mine) = 2)

C10_Witness ==
    /\ pages = TwoPages
    /\ iters[1].kind = "pages"
    /\ ~iters[1].erred
    /\ iters[1].query = EmptyDict
    /\ iters[1].outPages = TwoPages
    /\ iters[1].stops = 1
    /\ Len(sent) = 2

\* C11: the item generator ends with the normal end-of-sequence signal, never
\* with an error: once it has yielded the last item of the last page without a
\* failed request, the step that ends it signals end-of-sequence.
C11_ItemTermination ==
    \A i \in Iters :
        (/\ iters[i].made
         /\ iters[i].kind = "items"
         /\ iters[i].gen = "done"
         /\ ~iters[i].erred
         /\ iters[i].yielded = Flatten(pages))
        => /\ outcome = Raise("stop", 0)
           /\ iters[i].stops >= 1

\* C12: a request returns the whole envelope when its effective full_payload is
\* true and only the envelope's data otherwise; every request of an iterator
\* step runs with full_payload true, whatever the client or the caller set, and
\* the step of a page iterator hands out only the data of the page it asked for.
C12_ResultShape ==
    /\ (Started /\ req.caller = 0 /\ outcome.kind \in {"envelope", "data"}) =>
            LET k == PageOf(req.path)
            IN  /\ outcome.data = pages[k]
                /\ IF req.options["full_payload"]
                   THEN /\ outcome.kind = "envelope"
                        /\ outcome.next_page \in
                                (IF k < Len(pages) THEN {Cursor(k + 1)} ELSE {Missing, Null})
                   ELSE /\ outcome.kind = "data"
                        /\ outcome.next_page = Missing
    /\ (Started /\ req.caller # 0) => req.options["full_payload"] = TRUE
    /\ outcome.kind = "page" =>
            /\ outcome.data = pages[PageOf(req.path)]
            /\ outcome.next_page = Missing
    /\ outcome.kind # "AttributeError"

C12_Witness ==
    /\ options["full_payload"] = FALSE
    /\ pages = TwoPages
    /\ iters[1].kind = "pages"
    /\ req.path = CursorPath(2)
    /\ req.options["full_payload"] = TRUE
    /\ outcome = Outcome("page", 0, <<"t3">>, Missing)

\* C13: the options a request uses map every key to the value of the per-call
\* options Q if Q has the key, else to the value of the client's construction
\* options C if C has it, else to the default D; a dict-valued option is the
\* whole dict of the winning tier.
C13_MergePrecedence ==
    Started =>
        LET Q == req.kwargs
            C == init_options
            D == DEFAULTS
        IN  /\ DOMAIN req.options = (DOMAIN D) \cup (DOMAIN C) \cup (DOMAIN Q)
            /\ \A k \in DOMAIN req.options :
                    req.options[k] = IF k \in DOMAIN Q THEN Q[k]
                                     ELSE IF k \in DOMAIN C THEN C[k]
                                     ELSE D[k]

C13_Witness ==
    /\ Len(sent) >= 1
    /\ "headers" \in DOMAIN init_options
    /\ "headers" \in DOMAIN req.kwargs
    /\ init_options["offset"] = "C"
    /\ req.options["headers"] = [b |-> "2"]
    /\ req.options["offset"] = "X"
    /\ req.options["retries"] = 0
    /\ req.options["limit"] = DEFAULT_LIMIT

\* a query parameter as the transport gets it: a bool as its JSON literal
Wire(k, v) ==
    IF k \in {"sync", "opt_pretty"} /\ v = "True" THEN "true"
    ELSE IF k \in {"sync", "opt_pretty"} /\ v = "False" THEN "false"
    ELSE v

\* C14: the query parameters Client.get sends are the caller's literal query,
\* the API-modifier options under their opt_ names (a list joined by commas) and
\* the query options limit, offset and sync, each option taken from the per-call
\* options before the client's; a key of the caller's literal query is sent
\* with the caller's value (a bool as its JSON literal), whatever the options hold.
C14_QueryPrecedence ==
    (Started /\ req.caller = 0 /\ req.method = "get") =>
        LET query == req.query
            opts == pop(req.kwargs, "params")
            has(k) == k \in (DOMAIN opts) \cup (DOMAIN options)
            eff(k) == IF k \in DOMAIN opts THEN opts[k] ELSE options[k]
            QueryKeys == {k \in {"limit", "offset", "sync"} : has(k)}
            ApiKeys == {k \in {"pretty", "fields", "expand"} : has(k)}
            params == req.request_options["params"]
        IN  /\ DOMAIN params =
                    (DOMAIN query) \cup QueryKeys \cup {"opt_" \o k : k \in ApiKeys}
            /\ \A k \in DOMAIN query : params[k] = Wire(k, query[k])
            /\ \A k \in QueryKeys \ DOMAIN query : params[k] = Wire(k, eff(k))
            /\ \A k \in ApiKeys :
                    ("opt_" \o k) \notin DOMAIN query =>
                        params["opt_" \o k] =
                            Wire("opt_" \o k,
                                 IF k \in {"fields", "expand"} THEN join(eff(k)) ELSE eff(k))
            /\ (Len(seen) >= 1 => Last(sent).params = params)

C14_Witness ==
    /\ Len(seen) >= 1
    /\ req.method = "get"
    /\ req.query = [opt_fields |-> "gid", sync |-> "True"]
    /\ {"fields", "sync"} \subseteq DOMAIN init_options
    /\ init_options["fields"] = <<"gid", "name">>
    /\ init_options["sync"] = "False"
    /\ "limit" \in DOMAIN req.kwargs
    /\ req.kwargs["limit"] = 5
    /\ Last(sent).params = [limit |-> 5, opt_fields |-> "gid", sync |-> "true"]

\* C15: a transport call that raises instead of giving a response ends the
\* request at once: the failure propagates with no sleep and no change of the
\* retry budget, whatever budget is left, no sleep ever follows anything but a
\* response, and nothing is sent once the request is over.
C15_TransportFailurePropagates ==
    /\ [](Len(sleeps) <= Len(seen))
    /\ [](outcome.kind = "TransportError" => pc = "idle")
    /\ [][(pc = "loop" /\ sent' = Append(sent, Call) /\ seen' = seen /\ req' = req)
            => /\ pc' = "idle"
               /\ outcome' = Raise("TransportError", 0)
               /\ sleeps' = sleeps
               /\ retries' = retries]_vars
    /\ [][pc = "idle" => sent' = sent]_vars

C15_Witness ==
    /\ outcome = Raise("TransportError", 0)
    /\ pc = "idle"
    /\ Len(seen) = 2
    /\ Len(sleeps) = 2
    /\ Len(sent) = 3
    /\ retries = Inf

\* the step starts a request: a call by the application or by an iterator step, or
\* the next page asked for within one step of the item generator
RequestStarts ==
    /\ pc' = "loop"
    /\ seen' = <<>>
    /\ (pc = "idle" \/ Len(sent') > Len(sent))

\* C16: every request starts with the whole configured retry budget (the
\* configured number of retries, or the infinite counter for retries=True) and
\* with the configured retry_delay, whatever earlier requests consumed.
C16_FreshRetryState ==
    [][RequestStarts =>
        /\ retry_delay' = req'.options["retry_delay"]
        /\ retries' = IF req'.options["retries"] = PyTrue
                      THEN Inf ELSE req'.options["retries"]]_vars

\* a step of iterator i, or of the request it made
StepOf(i) ==
    \/ iters'[i].steps # iters[i].steps
    \/ ~iters[i].made
    \/ (pc = "loop" /\ req.caller = i)

\* what a page iterator that met no failure yields and sends when run alone:
\* the pages in order, one request per page, the first to the original path
\* with its query, the k-th to the cursor of page k
AsAlone(i) ==
    LET it == iters[i]
        mine == Requests(i)
    IN  /\ IsPrefix(it.outPages, pages)
        /\ Len(mine) = Len(it.outPages)
        /\ \A k \in 1..Len(mine) :
                /\ mine[k].path = IF k = 1 THEN OrigPath ELSE CursorPath(k)
                /\ mine[k].query = IF k = 1 THEN it.query ELSE EmptyDict
        /\ (it.stops > 0 => it.outPages = pages)

\* the steps of one iterator change nothing of the other, and each iterator
\* yields and sends what it does alone
IteratorsIsolated ==
    /\ [][\A i \in Iters : iters'[i] # iters[i] => StepOf(i)]_vars
    /\ [](\A i \in Iters :
            (iters[i].made /\ iters[i].kind = "pages" /\ ~iters[i].erred) => AsAlone(i))

StoredOptionsUnchanged == [][options' = options]_vars

\* C17: two page iterators of one client, their steps interleaved in any order,
\* each yield the pages and send the requests they do alone, and no request,
\* get_collection or iterator step changes the options the client stores.
C17_IteratorIsolation == IteratorsIsolated /\ StoredOptionsUnchanged

\* the number of items on the first n pages
ItemsOn(n) == Len(Flatten(SubSeq(pages, 1, n)))

\* the number of pages it takes to hand out m items, or to find that there are
\* fewer
PagesFor(m) ==
    IF m = 0 THEN 0
    ELSE IF ItemsOn(Len(pages)) < m THEN Len(pages)
    ELSE CHOOSE n \in 1..Len(pages) : ItemsOn(n) >= m /\ ItemsOn(n - 1) < m

\* C18: get_collection sends nothing; a page iterator has sent at most one
\* request per step asked of it; the item generator has sent no more requests
\* than the pages it takes to serve the items asked of it so far, and it asks
\* for a page only after handing out every item of the pages before it.
C18_Laziness ==
    \A i \in Iters :
        (iters[i].made /\ iters[i].kind \in {"pages", "items"}) =>
            LET it == iters[i]
                n == Len(Requests(i))
            IN  /\ (it.steps = 0 => n = 0)
                /\ (it.kind = "pages" => n <= it.steps)
                /\ (it.kind = "items" => n <= PagesFor(it.steps))
                /\ (it.kind = "items" /\ n >= 1 => Len(it.yielded) >= ItemsOn(n - 1))

C18_Witness ==
    /\ pages = TwoPages
    /\ iters[1].kind = "items"
    /\ iters[1].steps = 2
    /\ iters[1].yielded = <<"t1", "t2">>
    /\ pc = "idle"
    /\ Len(sent) = 1

\* the cursor of a page iterator that has yielded n pages
CursorAfter(n) ==
    IF n = 0 THEN {FalseVal}
    ELSE IF n < Len(pages) THEN {Cursor(n + 1)}
    ELSE {NoneVal}

\* C19: a step of a page iterator whose request propagates a failure leaves the
\* cursor and the pages yielded as they were; the cursor always names the page
\* after the ones yielded, so the next request is for the page that failed; the
\* pages yielded are the pages of the collection in order, each once, and all
\* of them when the iterator signals end-of-sequence.
C19_FailedStepKeepsCursor ==
    /\ [][\A i \in Iters :
            (/\ iters[i].kind = "pages"
             /\ pc = "loop"
             /\ req.caller = i
             /\ pc' = "idle"
             /\ outcome'.kind \in {"raise", "TransportError"})
            => /\ iters'[i].next_page = iters[i].next_page
               /\ iters'[i].outPages = iters[i].outPages]_vars
    /\ [](\A i \in Iters :
            (iters[i].made /\ iters[i].kind = "pages") =>
                LET it == iters[i]
                    mine == Requests(i)
                IN  /\ IsPrefix(it.outPages, pages)
                    /\ it.next_page \in CursorAfter(Len(it.outPages))
                    /\ \A k \in 1..Len(mine) :
                            PageOf(mine[k].path) <= Len(it.outPages) + 1
                    /\ \A k \in 1..(Len(mine) - 1) :
                            PageOf(mine[k].path) <= PageOf(mine[k + 1].path)
                    /\ (it.stops > 0 => it.outPages = pages))

C19_Witness ==
    /\ pages = TwoPages
    /\ iters[1].kind = "pages"
    /\ iters[1].erred
    /\ Len(sent) = 4
    /\ sent[1].path = OrigPath
    /\ sent[2].path = OrigPath
    /\ sent[3].path = CursorPath(2)
    /\ sent[4].path = CursorPath(2)
    /\ iters[1].outPages = TwoPages
    /\ iters[1].next_page = NoneVal

\* the first k sleeps of the request that followed errors other than the rate limit
RECURSIVE BackoffSleeps(_)
BackoffSleeps(k) ==
    IF k = 0 THEN <<>>
    ELSE IF RateLimitEnforcedError(seen[k].status) THEN BackoffSleeps(k - 1)
    ELSE Append(BackoffSleeps(k - 1), sleeps[k])

\* the transport calls the request has made
Attempts == Len(seen) + (IF outcome.kind = "TransportError" THEN 1 ELSE 0)

\* C20: a retry after a rate-limit error takes one unit of the retry budget and
\* leaves the backoff delay as it is: the j-th sleep that is not a rate-limit
\* sleep lasts retry_delay * retry_backoff^(j-1) whatever rate-limit retries came
\* in between, and with retries = n, a non-negative integer, the request makes
\* at most n + 1 transport calls, rate-limit retries included.
C20_RateLimitKeepsBackoff ==
    Started =>
        LET d == req.options["retry_delay"]
            b == req.options["retry_backoff"]
            n == req.options["retries"]
            backoffs == BackoffSleeps(Len(sleeps))
        IN  /\ \A j \in 1..Len(backoffs) : backoffs[j] = d * Pow(b, j - 1)
            /\ retry_delay = d * Pow(b, Len(backoffs))
            /\ (retries # Inf => retries = n - Len(sleeps))
            /\ (n >= 0 => Attempts <= n + 1)

====
